---------------------------- MODULE Spec2Model ----------------------------
(***************************************************************************)
(* Model of main.py (polar-plant dashboard): Unicode-tolerant file lookup, *)
(* the two memoized loaders, the load gate and the per-school summaries.   *)
(*                                                                         *)
(* Representation of Python values:                                        *)
(*   - a file name is a sequence of code points; Hangul code points are    *)
(*     abstracted to their jamo class: "L" leading consonant, "V" vowel,   *)
(*     "T" trailing consonant, "LV" / "LVT" precomposed syllables, "x" an  *)
(*     ASCII character;                                                    *)
(*   - a float is a reduced fraction <<num, den>>, NaN is <<>>;            *)
(*   - None / a dict / "not yet assigned" are records told apart by tag.   *)
(***************************************************************************)
EXTENDS Integers, Sequences, FiniteSets, TLC

(***************************************************************************)
(* Bounds of the model                                                     *)
(***************************************************************************)
MaxNameLen == 2      \* code points per file name in the lookup specification
MaxEntries == 2      \* directory entries yielded by iterdir() in one lookup
MaxRows    == 1      \* rows per table in the summary specification
MaxVal     == 1      \* cell values are NaN or 0..MaxVal
MaxRuns    == 2      \* script runs (Streamlit reruns) per session
MaxEmpty   == 1      \* tables (CSV files and sheets) of the data directory without a record

(***************************************************************************)
(* State                                                                   *)
(***************************************************************************)
VARIABLES target_name, \* one call of find_file_by_name: the argument target_name
    p,                \* the loop variable: the entry iterdir() yielded last
    found,            \* the returned value, NoneFile for None
    fpc,              \* "iter" inside the loop, "returned" after the return
    nlisted,          \* number of entries yielded so far
    listedFileEquiv,  \* a regular file canonically equivalent to the target was yielded
    listedDirEquiv,   \* a non-file canonically equivalent to the target was yielded
    \* the dashboard
    dir,              \* the listing of DATA_DIR
    cache,            \* the st.cache_data entries
    runs,             \* number of the current script run
    pc,               \* position of the current run in the script
    env_data, growth_data, selected_school,
    errors,           \* the st.error messages shown in this run
    overview,         \* tab 1: info_rows, total_count, avg_temp, avg_hum
    avg_rows, ts_df,  \* tab 2: the averages, env_data[selected_school]
    summary, best_row, \* tab 3
    exception,        \* the exception that ended the run, "none" if none
    firstEnv, firstGrowth, \* what each loader returned at its first call
    \* one summary row
    sschool,          \* the school the row is for
    sdf,              \* that school's table
    skind,            \* "env" for a row of avg_rows, "growth" for a row of summary
    srow,             \* the row computed
    spc               \* "start" before, "done" after

(***************************************************************************)
(* unicodedata.normalize for Hangul: canonical decomposition/composition   *)
(***************************************************************************)
\* canonical decomposition mapping of one code point
Decompose(c) ==
    IF c = "LV" THEN <<"L", "V">>
    ELSE IF c = "LVT" THEN <<"L", "V", "T">>
    ELSE <<c>>

RECURSIVE NFD(_)
NFD(s) == IF s = <<>> THEN <<>> ELSE Decompose(Head(s)) \o NFD(Tail(s))

\* canonical composition of one more code point onto an already composed prefix
ComposeStep(acc, c) ==
    IF acc = <<>> THEN <<c>>
    ELSE LET last == acc[Len(acc)]
             init == SubSeq(acc, 1, Len(acc) - 1)
         IN  IF last = "L" /\ c = "V" THEN Append(init, "LV")
             ELSE IF last = "LV" /\ c = "T" THEN Append(init, "LVT")
             ELSE Append(acc, c)

RECURSIVE Compose(_, _)
Compose(acc, s) ==
    IF s = <<>> THEN acc ELSE Compose(ComposeStep(acc, Head(s)), Tail(s))

NFC(s) == Compose(<<>>, NFD(s))

\* a normalize_name that forgets to normalize
normalize_name_raw(name, form) == name

normalize_name(name, form) == IF form = "NFC" THEN NFC(name) ELSE NFD(name)

Forms == <<"NFC", "NFD">>

\* a comparison that only looks at the first code point of the normalized names
NameMatchesPrefix(pname, target) ==
    \E i \in 1..Len(Forms) :
        Head(normalize_name(pname, Forms[i])) = Head(normalize_name(target, Forms[i]))

\* lines 50-51: the name matches under NFC or under NFD
NameMatches(pname, target) ==
    \E i \in 1..Len(Forms) :
        normalize_name(pname, Forms[i]) = normalize_name(target, Forms[i])

\* a candidate test that forgets p.is_file()
IsCandidateAny(entry) == TRUE

\* line 48: only regular files are candidates
IsCandidate(entry) == entry.is_file

\* Python's None as a directory entry (file names are never empty)
NoneFile == [name |-> <<>>, is_file |-> FALSE, content |-> <<>>]

RECURSIVE find_file_by_name(_, _)
find_file_by_name(directory, target) ==
    IF directory = <<>> THEN NoneFile
    ELSE IF IsCandidate(Head(directory)) /\ NameMatches(Head(directory).name, target)
         THEN Head(directory)
         ELSE find_file_by_name(Tail(directory), target)

(***************************************************************************)
(* Lookup specification: one call of find_file_by_name, one loop iteration *)
(* per step, the directory listing supplied entry by entry by iterdir().   *)
(***************************************************************************)
fvars == <<target_name, p, found, fpc, nlisted, listedFileEquiv, listedDirEquiv>>
avars == <<dir, cache, runs, pc, env_data, growth_data, errors, selected_school,
           overview, avg_rows, ts_df, summary, best_row, exception,
           firstEnv, firstGrowth>>
svars == <<sschool, sdf, skind, srow, spc>>
vars == <<fvars, avars, svars>>

\* the names of the lookup specification: a leading consonant, a vowel and
\* the syllable the two compose to, so that a name has composed, decomposed
\* and mixed spellings
NameCodePoints == {"L", "V", "LV"}
NamesOfLen(n) == [1..n -> NameCodePoints]
Names == UNION {NamesOfLen(n) : n \in 1..MaxNameLen}
FindEntries == [name : Names, is_file : BOOLEAN, content : {<<>>}]

\* Unicode canonical equivalence: equal full canonical decompositions
CanonEquiv(a, b) == NFD(a) = NFD(b)

\* the variables of a specification that is not running
FindIdle ==
    /\ target_name = <<>>
    /\ p = NoneFile
    /\ found = NoneFile
    /\ fpc = "idle"
    /\ nlisted = 0
    /\ listedFileEquiv = FALSE
    /\ listedDirEquiv = FALSE

AppIdle ==
    /\ dir = <<>>
    /\ cache = <<>>
    /\ runs = 0
    /\ pc = "idle"
    /\ env_data = [tag |-> "unset"]
    /\ growth_data = [tag |-> "unset"]
    /\ errors = <<>>
    /\ selected_school = "unset"
    /\ overview = [tag |-> "unset"]
    /\ avg_rows = [tag |-> "unset"]
    /\ ts_df = [tag |-> "unset"]
    /\ summary = [tag |-> "unset"]
    /\ best_row = [tag |-> "unset"]
    /\ exception = "none"
    /\ firstEnv = [tag |-> "unset"]
    /\ firstGrowth = [tag |-> "unset"]

SummaryIdle ==
    /\ sschool = "unset"
    /\ sdf = <<>>
    /\ skind = "idle"
    /\ srow = [tag |-> "unset"]
    /\ spc = "idle"

FindInit ==
    /\ AppIdle
    /\ SummaryIdle
    /\ target_name \in Names
    /\ p = NoneFile
    /\ found = NoneFile
    /\ fpc = "iter"
    /\ nlisted = 0
    /\ listedFileEquiv = FALSE
    /\ listedDirEquiv = FALSE

\* bookkeeping about the entries the directory has yielded so far
Listed(e) ==
    /\ p' = e
    /\ nlisted' = nlisted + 1
    /\ listedFileEquiv' = (listedFileEquiv \/ (e.is_file /\ CanonEquiv(e.name, target_name)))
    /\ listedDirEquiv' = (listedDirEquiv \/ (~e.is_file /\ CanonEquiv(e.name, target_name)))

\* lines 47-49: the next entry is not a regular file: continue
IterSkip ==
    /\ fpc = "iter"
    /\ nlisted < MaxEntries
    /\ \E e \in FindEntries :
        /\ ~IsCandidate(e)
        /\ Listed(e)
    /\ UNCHANGED <<target_name, found, fpc>>
    /\ UNCHANGED <<avars, svars>>

\* lines 50-51: the next entry is a regular file whose name does not match
IterNoMatch ==
    /\ fpc = "iter"
    /\ nlisted < MaxEntries
    /\ \E e \in FindEntries :
        /\ IsCandidate(e)
        /\ ~NameMatches(e.name, target_name)
        /\ Listed(e)
    /\ UNCHANGED <<target_name, found, fpc>>
    /\ UNCHANGED <<avars, svars>>

\* lines 50-52: the next entry is a regular file whose name matches: return p
IterMatch ==
    /\ fpc = "iter"
    /\ nlisted < MaxEntries
    /\ \E e \in FindEntries :
        /\ IsCandidate(e)
        /\ NameMatches(e.name, target_name)
        /\ Listed(e)
        /\ found' = e
    /\ fpc' = "returned"
    /\ UNCHANGED target_name
    /\ UNCHANGED <<avars, svars>>

\* line 53: the listing is exhausted: return None
IterExhausted ==
    /\ fpc = "iter"
    /\ found' = NoneFile
    /\ fpc' = "returned"
    /\ UNCHANGED <<target_name, p, nlisted, listedFileEquiv, listedDirEquiv>>
    /\ UNCHANGED <<avars, svars>>

FindNext == IterSkip \/ IterNoMatch \/ IterMatch \/ IterExhausted

FindSpec == FindInit /\ [][FindNext]_vars

\* C1: whenever a regular file with a name canonically equivalent to the
\* target was listed (in whatever normalization form either is stored), the
\* lookup returns a file and that file's name is canonically equivalent to
\* the target.
C1_EquivalentFileIsFound ==
    (fpc = "returned" /\ listedFileEquiv)
        => (found # NoneFile /\ CanonEquiv(found.name, target_name))

\* the lookup returned a file whose stored name differs from the target's
\* code points (one composed, the other decomposed)
C1_Witness ==
    /\ fpc = "returned"
    /\ found # NoneFile
    /\ found.name # target_name
    /\ CanonEquiv(found.name, target_name)

\* C2: the lookup returns None exactly when no listed regular file has a
\* name canonically equivalent to the target, and a returned file always has
\* an equivalent name.
C2_NoneIffNoEquivalentFile ==
    fpc = "returned" =>
        /\ (found = NoneFile) <=> ~listedFileEquiv
        /\ found # NoneFile => CanonEquiv(found.name, target_name)

\* the lookup returned None after listing files none of which is equivalent
C2_Witness ==
    /\ fpc = "returned"
    /\ found = NoneFile
    /\ nlisted = MaxEntries
    /\ p.is_file

\* C3: a returned path is a listed entry that is a regular file, also when
\* a directory with an equivalent name was listed.
C3_NeverReturnsDirectory ==
    (fpc = "returned" /\ found # NoneFile) => (found.is_file /\ found = p)

\* a directory with an equivalent name was listed before the returned file
C3_Witness ==
    /\ fpc = "returned"
    /\ found # NoneFile
    /\ listedDirEquiv


(***************************************************************************)
(* Program constants                                                       *)
(***************************************************************************)
\* SCHOOL_INFO: the four schools (keys in insertion order) and their target EC
SchoolOrder == <<"songdo", "haneul", "ara", "dongsan">>
Schools == {SchoolOrder[i] : i \in 1..Len(SchoolOrder)}
SCHOOL_INFO ==
    [s \in Schools |->
        [ec |-> CASE s = "songdo" -> <<1, 1>>
                  [] s = "haneul" -> <<2, 1>>
                  [] s = "ara" -> <<4, 1>>
                  [] s = "dongsan" -> <<8, 1>>,
         color |-> s]]

\* the school names as code points: 송도고, 하늘고, 아라고, 동산고 (all NFC)
SchoolName(s) ==
    CASE s = "songdo" -> <<"LVT", "LV", "LV">>
      [] s = "haneul" -> <<"LV", "LVT", "LV">>
      [] s = "ara" -> <<"LV", "LV", "LV">>
      [] s = "dongsan" -> <<"LVT", "LVT", "LV">>

\* f"{school}_환경데이터.csv": the school's name and a suffix, the suffix
\* (the same for every school) abstracted to one ASCII code point
EnvFileName(s) == SchoolName(s) \o <<"x">>

\* "4개교_생육결과데이터.xlsx": "4", two syllables, the rest abstracted to one code point
GrowthFileName == <<"x", "LV", "LV", "x">>

(***************************************************************************)
(* Floats and pandas' Series.mean()                                        *)
(***************************************************************************)
NaN == <<>>
Num(n) == <<n, 1>>
IsNaN(x) == x = NaN

RECURSIVE Gcd(_, _)
Gcd(a, b) == IF b = 0 THEN a ELSE Gcd(b, a % b)

\* the quotient a / b (b > 0) as a reduced fraction
Frac(a, b) == LET g == Gcd(a, b) IN <<a \div g, b \div g>>

RECURSIVE SumNum(_)
SumNum(xs) == IF xs = <<>> THEN 0 ELSE Head(xs)[1] + SumNum(Tail(xs))

\* a column of a table (cells of the model are NaN or whole numbers)
Column(df, col) == [i \in 1..Len(df) |-> df[i][col]]

\* a mean that counts an empty column as 0
MeanZeroOnEmpty(series) ==
    LET xs == SelectSeq(series, LAMBDA x : ~IsNaN(x))
    IN  IF xs = <<>> THEN Num(0) ELSE Frac(SumNum(xs), Len(xs))

\* a mean that divides by one too many
MeanOffByOne(series) ==
    LET xs == SelectSeq(series, LAMBDA x : ~IsNaN(x))
    IN  IF xs = <<>> THEN NaN ELSE Frac(SumNum(xs), Len(xs) + 1)

\* Series.mean(): NaN cells are skipped, the mean of nothing is NaN
Mean(series) ==
    LET xs == SelectSeq(series, LAMBDA x : ~IsNaN(x))
    IN  IF xs = <<>> THEN NaN ELSE Frac(SumNum(xs), Len(xs))

\* lines 152-159: one row of avg_rows
EnvSummaryRow(school, df) ==
    [school |-> school,
     temperature |-> Mean(Column(df, "temperature")),
     humidity |-> Mean(Column(df, "humidity")),
     ph |-> Mean(Column(df, "ph")),
     ec |-> Mean(Column(df, "ec")),
     target_ec |-> SCHOOL_INFO[school].ec]

\* lines 225-232: one row of summary
GrowthSummaryRow(school, df) ==
    [school |-> school,
     ec |-> SCHOOL_INFO[school].ec,
     weight |-> Mean(Column(df, "weight")),
     leaf |-> Mean(Column(df, "leaf")),
     shoot |-> Mean(Column(df, "shoot")),
     count |-> Len(df)]


(***************************************************************************)
(* Python values                                                           *)
(***************************************************************************)
Unset == [tag |-> "unset"]              \* name not assigned in this run
NoneVal == [tag |-> "None"]
Dict(items) == [tag |-> "dict", val |-> items]  \* items: <<[key, df], ...>> in insertion order
Assigned(x) == [tag |-> "value", val |-> x]
IsNone(v) == v.tag = "None"
IsDict(v) == v.tag = "dict"

Keys(d) == {d.val[i].key : i \in 1..Len(d.val)}
Get(d, k) == d.val[CHOOSE i \in 1..Len(d.val) : d.val[i].key = k].df

RECURSIVE ConcatTables(_)
ConcatTables(items) ==
    IF items = <<>> THEN <<>> ELSE Head(items).df \o ConcatTables(Tail(items))

(***************************************************************************)
(* Data loading (lines 58-87)                                              *)
(***************************************************************************)
\* pd.read_csv(file_path) followed by df["school"] = school
TagSchool(table, school) == [i \in 1..Len(table) |-> [school |-> school] @@ table[i]]

\* st.error(f"... {filename}"): the message of line 66 embeds the file name
EnvMissingMsg(filename) == [text |-> "env data file not found", filename |-> filename]
\* st.error("..."): the message of line 78 is a fixed text, no name embedded
GrowthMissingMsg == [text |-> "growth xlsx file not found", filename |-> <<>>]

\* a loader that skips a missing school and goes on with the others
RECURSIVE LoadEnvContinue(_, _, _, _)
LoadEnvContinue(directory, i, data, msgs) ==
    IF i > Len(SchoolOrder) THEN [value |-> Dict(data), msgs |-> msgs]
    ELSE LET school == SchoolOrder[i]
             filename == EnvFileName(school)
             file_path == find_file_by_name(directory, filename)
         IN  IF file_path = NoneFile
             THEN LoadEnvContinue(directory, i + 1, data, Append(msgs, EnvMissingMsg(filename)))
             ELSE LoadEnvContinue(directory, i + 1,
                     Append(data, [key |-> school, df |-> TagSchool(file_path.content, school)]),
                     msgs)

load_environment_data_continue(directory) == LoadEnvContinue(directory, 1, <<>>, <<>>)

\* lines 62-71: the loop over SCHOOL_INFO.keys(), from school number i on
RECURSIVE LoadEnvFrom(_, _, _)
LoadEnvFrom(directory, i, data) ==
    IF i > Len(SchoolOrder) THEN [value |-> Dict(data), msgs |-> <<>>]
    ELSE LET school == SchoolOrder[i]
             filename == EnvFileName(school)
             file_path == find_file_by_name(directory, filename)
         IN  IF file_path = NoneFile
             THEN [value |-> NoneVal, msgs |-> <<EnvMissingMsg(filename)>>]
             ELSE LoadEnvFrom(directory, i + 1,
                     Append(data, [key |-> school, df |-> TagSchool(file_path.content, school)]))

\* the body of load_environment_data: the returned value and the st.error calls
load_environment_data(directory) == LoadEnvFrom(directory, 1, <<>>)

\* lines 81-86: every sheet of the workbook, tagged with its sheet name
ReadSheets(xls) ==
    [i \in 1..Len(xls) |-> [key |-> xls[i].key, df |-> TagSchool(xls[i].df, xls[i].key)]]

\* the body of load_growth_data
load_growth_data(directory) ==
    LET xlsx_path == find_file_by_name(directory, GrowthFileName)
    IN  IF xlsx_path = NoneFile
        THEN [value |-> NoneVal, msgs |-> <<GrowthMissingMsg>>]
        ELSE [value |-> Dict(ReadSheets(xlsx_path.content)), msgs |-> <<>>]

\* a cache that keeps one entry for all functions
CacheKeyShared(fn) == "load_environment_data"

\* @st.cache_data on a function without arguments: the entry is keyed by the function
CacheKey(fn) == fn

CacheKeys == {"load_environment_data", "load_growth_data"}
NotCached == [tag |-> "miss"]
Cached(r) == [tag |-> "hit", value |-> r.value, msgs |-> r.msgs]

\* a gate that stops only when both loads failed
GateStopsBoth(env, growth) == IsNone(env) /\ IsNone(growth)

\* line 92: env_data is None or growth_data is None
GateStops(env, growth) == IsNone(env) \/ IsNone(growth)

(***************************************************************************)
(* The page body (lines 121-235)                                           *)
(***************************************************************************)
\* SCHOOL_INFO[school] raises KeyError for these sheets (lines 126, 227)
UnknownSheets(growth) == Keys(growth) \ DOMAIN SCHOOL_INFO

\* lines 121-130
InfoRows(growth) ==
    [i \in 1..Len(growth.val) |->
        [school |-> growth.val[i].key,
         ec |-> SCHOOL_INFO[growth.val[i].key].ec,
         count |-> Len(growth.val[i].df),
         color |-> SCHOOL_INFO[growth.val[i].key].color]]

\* lines 121-141: info_rows, total_count, avg_temp, avg_hum
Overview(env, growth) ==
    [info_rows |-> InfoRows(growth),
     total_count |-> Len(ConcatTables(growth.val)),
     avg_temp |-> Mean(Column(ConcatTables(env.val), "temperature")),
     avg_hum |-> Mean(Column(ConcatTables(env.val), "humidity"))]

\* lines 150-159
AvgRows(env) ==
    [i \in 1..Len(env.val) |-> EnvSummaryRow(env.val[i].key, env.val[i].df)]

\* lines 223-232
Summary(growth) ==
    [i \in 1..Len(growth.val) |-> GrowthSummaryRow(growth.val[i].key, growth.val[i].df)]

\* a < b for fractions with positive denominators
FracLess(a, b) == a[1] * b[2] < b[1] * a[2]

\* line 235: sum_df["weight"].idxmax() skips NaN; it has no answer when the
\* frame is empty or every weight is NaN
HasBestRow(rows) == \E i \in 1..Len(rows) : ~IsNaN(rows[i].weight)
BestRow(rows) ==
    rows[CHOOSE i \in 1..Len(rows) :
            /\ ~IsNaN(rows[i].weight)
            /\ \A j \in 1..Len(rows) :
                ~IsNaN(rows[j].weight) =>
                    /\ ~FracLess(rows[i].weight, rows[j].weight)
                    /\ (rows[j].weight = rows[i].weight => i <= j)]


(***************************************************************************)
(* The data directory                                                      *)
(***************************************************************************)
SampleEnvRow ==
    [time |-> "t0", temperature |-> Num(2), humidity |-> Num(1), ph |-> Num(0), ec |-> Num(1)]
SampleGrowthRow == [weight |-> Num(1), leaf |-> Num(2), shoot |-> Num(0)]

\* the sheets a workbook may hold: the four schools and one other name
SheetOrder == SchoolOrder \o <<"other">>
SheetNames == {SheetOrder[i] : i \in 1..Len(SheetOrder)}

\* which files (sheets) exist and which of them hold no record; the others
\* hold the sample record
Contents(names) ==
    {c \in [present : SUBSET names, empty : SUBSET names] : c.empty \subseteq c.present}

RECURSIVE EnvEntries(_, _, _)
EnvEntries(form, envfiles, i) ==
    IF i > Len(SchoolOrder) THEN <<>>
    ELSE LET school == SchoolOrder[i]
             rest == EnvEntries(form, envfiles, i + 1)
         IN  IF school \in envfiles.present
             THEN <<[name |-> normalize_name(EnvFileName(school), form),
                     is_file |-> TRUE,
                     content |-> IF school \in envfiles.empty
                                 THEN <<>> ELSE <<SampleEnvRow>>]>> \o rest
             ELSE rest

RECURSIVE Workbook(_, _)
Workbook(sheets, i) ==
    IF i > Len(SheetOrder) THEN <<>>
    ELSE LET name == SheetOrder[i]
             rest == Workbook(sheets, i + 1)
         IN  IF name \in sheets.present
             THEN <<[key |-> name,
                     df |-> IF name \in sheets.empty
                            THEN <<>> ELSE <<SampleGrowthRow>>]>> \o rest
             ELSE rest

\* the listing of DATA_DIR: the files that are present, every name stored in
\* the normalization form of the file system
Listing(form, envfiles, xlsx, sheets) ==
    EnvEntries(form, envfiles, 1)
        \o (IF xlsx
            THEN <<[name |-> normalize_name(GrowthFileName, form),
                    is_file |-> TRUE,
                    content |-> Workbook(sheets, 1)]>>
            ELSE <<>>)

(***************************************************************************)
(* Dashboard specification: script runs over a fixed data directory, the   *)
(* st.cache_data entries living across the runs.                           *)
(***************************************************************************)
\* a fresh script run: no module-level name is assigned yet
FreshRun ==
    /\ pc = "load_env"
    /\ env_data = Unset
    /\ growth_data = Unset
    /\ errors = <<>>
    /\ selected_school = "unset"
    /\ overview = Unset
    /\ avg_rows = Unset
    /\ ts_df = Unset
    /\ summary = Unset
    /\ best_row = Unset
    /\ exception = "none"

Init ==
    /\ FindIdle
    /\ SummaryIdle
    /\ \E form \in {"NFC", "NFD"}, envfiles \in Contents(Schools), xlsx \in BOOLEAN :
        \E sheets \in Contents(SheetNames) :
            /\ ~xlsx => sheets.present = {}
            /\ Cardinality(envfiles.empty) + Cardinality(sheets.empty) <= MaxEmpty
            /\ dir = Listing(form, envfiles, xlsx, sheets)
    /\ cache = [k \in CacheKeys |-> NotCached]
    /\ runs = 1
    /\ FreshRun
    /\ firstEnv = Unset
    /\ firstGrowth = Unset

\* st.cache_data: the function's entry is in the cache (a hit)
IsCached(fn) == cache[CacheKey(fn)].tag = "hit"
\* on a hit the stored value is returned and the stored st.error calls are replayed
CachedResult(fn) == [value |-> cache[CacheKey(fn)].value, msgs |-> cache[CacheKey(fn)].msgs]

\* line 89: env_data = load_environment_data()
CallLoadEnv ==
    /\ pc = "load_env"
    /\ LET r == IF IsCached("load_environment_data")
                THEN CachedResult("load_environment_data")
                ELSE load_environment_data(dir)
       IN  /\ env_data' = r.value
           /\ errors' = errors \o r.msgs
           /\ cache' = [cache EXCEPT ![CacheKey("load_environment_data")] = Cached(r)]
           /\ firstEnv' = IF firstEnv = Unset THEN r.value ELSE firstEnv
    /\ pc' = "load_growth"
    /\ UNCHANGED <<dir, runs, growth_data, selected_school, overview, avg_rows, ts_df,
                   summary, best_row, exception, firstGrowth>>
    /\ UNCHANGED <<fvars, svars>>

\* line 90: growth_data = load_growth_data()
CallLoadGrowth ==
    /\ pc = "load_growth"
    /\ LET r == IF IsCached("load_growth_data")
                THEN CachedResult("load_growth_data")
                ELSE load_growth_data(dir)
       IN  /\ growth_data' = r.value
           /\ errors' = errors \o r.msgs
           /\ cache' = [cache EXCEPT ![CacheKey("load_growth_data")] = Cached(r)]
           /\ firstGrowth' = IF firstGrowth = Unset THEN r.value ELSE firstGrowth
    /\ pc' = "gate"
    /\ UNCHANGED <<dir, runs, env_data, selected_school, overview, avg_rows, ts_df,
                   summary, best_row, exception, firstEnv>>
    /\ UNCHANGED <<fvars, svars>>

\* lines 92-93: st.stop()
GateStop ==
    /\ pc = "gate"
    /\ GateStops(env_data, growth_data)
    /\ pc' = "stopped"
    /\ UNCHANGED <<dir, cache, runs, env_data, growth_data, errors, selected_school,
                   overview, avg_rows, ts_df, summary, best_row, exception,
                   firstEnv, firstGrowth>>
    /\ UNCHANGED <<fvars, svars>>

\* lines 98-102: the run goes on and reads the sidebar selection
Sidebar ==
    /\ pc = "gate"
    /\ ~GateStops(env_data, growth_data)
    /\ \E choice \in {"all"} \cup Schools : selected_school' = choice
    /\ pc' = "tab1"
    /\ UNCHANGED <<dir, cache, runs, env_data, growth_data, errors,
                   overview, avg_rows, ts_df, summary, best_row, exception,
                   firstEnv, firstGrowth>>
    /\ UNCHANGED <<fvars, svars>>

\* lines 121-126: a sheet that is no key of SCHOOL_INFO raises KeyError
Tab1KeyError ==
    /\ pc = "tab1"
    /\ UnknownSheets(growth_data) # {}
    /\ exception' = "KeyError"
    /\ pc' = "crashed"
    /\ UNCHANGED <<dir, cache, runs, env_data, growth_data, errors, selected_school,
                   overview, avg_rows, ts_df, summary, best_row, firstEnv, firstGrowth>>
    /\ UNCHANGED <<fvars, svars>>

\* lines 114-142
Tab1 ==
    /\ pc = "tab1"
    /\ UnknownSheets(growth_data) = {}
    /\ overview' = Assigned(Overview(env_data, growth_data))
    /\ pc' = "tab2"
    /\ UNCHANGED <<dir, cache, runs, env_data, growth_data, errors, selected_school,
                   avg_rows, ts_df, summary, best_row, exception, firstEnv, firstGrowth>>
    /\ UNCHANGED <<fvars, svars>>

\* lines 147-215: the averages, and the selected school's table
Tab2 ==
    /\ pc = "tab2"
    /\ avg_rows' = Assigned(AvgRows(env_data))
    /\ IF selected_school # "all"
       THEN IF selected_school \in Keys(env_data)
            THEN /\ ts_df' = Assigned(Get(env_data, selected_school))
                 /\ pc' = "tab3"
                 /\ UNCHANGED exception
            ELSE /\ exception' = "KeyError"
                 /\ pc' = "crashed"
                 /\ UNCHANGED ts_df
       ELSE /\ pc' = "tab3"
            /\ UNCHANGED <<ts_df, exception>>
    /\ UNCHANGED <<dir, cache, runs, env_data, growth_data, errors, selected_school,
                   overview, summary, best_row, firstEnv, firstGrowth>>
    /\ UNCHANGED <<fvars, svars>>

\* lines 220-296, when idxmax has a row to name
Tab3 ==
    /\ pc = "tab3"
    /\ HasBestRow(Summary(growth_data))
    /\ summary' = Assigned(Summary(growth_data))
    /\ best_row' = Assigned(BestRow(Summary(growth_data)))
    /\ pc' = "done"
    /\ UNCHANGED <<dir, cache, runs, env_data, growth_data, errors, selected_school,
                   overview, avg_rows, ts_df, exception, firstEnv, firstGrowth>>
    /\ UNCHANGED <<fvars, svars>>

\* lines 223-235, when the summary is empty or holds no weight: line 235 raises
Tab3NoBestRow ==
    /\ pc = "tab3"
    /\ ~HasBestRow(Summary(growth_data))
    /\ summary' = Assigned(Summary(growth_data))
    /\ exception' = "NoBestRow"
    /\ pc' = "crashed"
    /\ UNCHANGED <<dir, cache, runs, env_data, growth_data, errors, selected_school,
                   overview, avg_rows, ts_df, best_row, firstEnv, firstGrowth>>
    /\ UNCHANGED <<fvars, svars>>

\* Streamlit runs the script again on the next interaction; the cache stays
Rerun ==
    /\ pc \in {"stopped", "crashed", "done"}
    /\ runs < MaxRuns
    /\ runs' = runs + 1
    /\ pc' = "load_env"
    /\ env_data' = Unset
    /\ growth_data' = Unset
    /\ errors' = <<>>
    /\ selected_school' = "unset"
    /\ overview' = Unset
    /\ avg_rows' = Unset
    /\ ts_df' = Unset
    /\ summary' = Unset
    /\ best_row' = Unset
    /\ exception' = "none"
    /\ UNCHANGED <<dir, cache, firstEnv, firstGrowth>>
    /\ UNCHANGED <<fvars, svars>>


Next ==
    \/ CallLoadEnv
    \/ CallLoadGrowth
    \/ GateStop
    \/ Sidebar
    \/ Tab1KeyError
    \/ Tab1
    \/ Tab2
    \/ Tab3
    \/ Tab3NoBestRow
    \/ Rerun

Spec == Init /\ [][Next]_vars

(***************************************************************************)
(* Summary specification: one summary row computed from one school's table *)
(***************************************************************************)
Cells == {NaN} \cup {Num(v) : v \in 0..MaxVal}
EnvRows == [time : {"t0"}, temperature : Cells, humidity : Cells, ph : Cells, ec : Cells]
GrowthRows == [weight : Cells, leaf : Cells, shoot : Cells]
TablesOf(rows) == UNION {[1..n -> rows] : n \in 0..MaxRows}

SummaryInit ==
    /\ FindIdle
    /\ AppIdle
    /\ sschool \in Schools
    /\ \/ skind = "env" /\ sdf \in TablesOf(EnvRows)
       \/ skind = "growth" /\ sdf \in TablesOf(GrowthRows)
    /\ srow = Unset
    /\ spc = "start"

\* lines 151-159 for one school
SummarizeEnv ==
    /\ spc = "start"
    /\ skind = "env"
    /\ srow' = Assigned(EnvSummaryRow(sschool, TagSchool(sdf, sschool)))
    /\ spc' = "done"
    /\ UNCHANGED <<sschool, sdf, skind>>
    /\ UNCHANGED <<fvars, avars>>

\* lines 224-232 for one school
SummarizeGrowth ==
    /\ spc = "start"
    /\ skind = "growth"
    /\ srow' = Assigned(GrowthSummaryRow(sschool, TagSchool(sdf, sschool)))
    /\ spc' = "done"
    /\ UNCHANGED <<sschool, sdf, skind>>
    /\ UNCHANGED <<fvars, avars>>

SummaryNext == SummarizeEnv \/ SummarizeGrowth

SummarySpec == SummaryInit /\ [][SummaryNext]_vars


(***************************************************************************)
(* Properties of the dashboard                                             *)
(***************************************************************************)
\* the data directory holds a regular file for the school's CSV
CsvPresent(s) ==
    \E i \in 1..Len(dir) : dir[i].is_file /\ CanonEquiv(dir[i].name, EnvFileName(s))
\* exactly one school's CSV is missing, and it is s
OnlyMissing(s) == ~CsvPresent(s) /\ \A t \in Schools \ {s} : CsvPresent(t)

\* the st.error messages of load_environment_data shown in this run
EnvErrors == SelectSeq(errors, LAMBDA m : m.text = "env data file not found")

C5_ErrorsNameTheFile ==
    /\ env_data.tag = "None" =>
        \E i \in 1..Len(errors) : \E s \in Schools : errors[i].filename = EnvFileName(s)
    /\ growth_data.tag = "None" =>
        \E i \in 1..Len(errors) : errors[i].filename = GrowthFileName

\* the schools that have a row in a frame of summary rows
RowSchools(rows) == {rows[i].school : i \in 1..Len(rows)}

\* C7 as stated: a school without records never gets 0 for a mean field, and
\* only schools with at least one record have a summary row.
C7_RowsOnlyForSchoolsWithRecords ==
    /\ avg_rows.tag = "value" =>
        \A i \in 1..Len(env_data.val) :
            Len(env_data.val[i].df) = 0 => env_data.val[i].key \notin RowSchools(avg_rows.val)
    /\ summary.tag = "value" =>
        \A i \in 1..Len(growth_data.val) :
            Len(growth_data.val[i].df) = 0 => growth_data.val[i].key \notin RowSchools(summary.val)

\* C7 as amended: every loaded school has a summary row, and the row of a
\* school without records carries NaN (never 0) in every mean field.
C7_EmptySchoolCarriesNaN ==
    /\ avg_rows.tag = "value" =>
        /\ Len(avg_rows.val) = Len(env_data.val)
        /\ \A i \in 1..Len(env_data.val) :
            /\ avg_rows.val[i].school = env_data.val[i].key
            /\ Len(env_data.val[i].df) = 0 =>
                /\ IsNaN(avg_rows.val[i].temperature)
                /\ IsNaN(avg_rows.val[i].humidity)
                /\ IsNaN(avg_rows.val[i].ph)
                /\ IsNaN(avg_rows.val[i].ec)
    /\ summary.tag = "value" =>
        /\ Len(summary.val) = Len(growth_data.val)
        /\ \A i \in 1..Len(growth_data.val) :
            /\ summary.val[i].school = growth_data.val[i].key
            /\ Len(growth_data.val[i].df) = 0 =>
                /\ IsNaN(summary.val[i].weight)
                /\ IsNaN(summary.val[i].leaf)
                /\ IsNaN(summary.val[i].shoot)
                /\ summary.val[i].count = 0

\* the averages were computed for a directory in which a school's CSV holds
\* no record
C7_Witness ==
    /\ avg_rows.tag = "value"
    /\ \E i \in 1..Len(env_data.val) : Len(env_data.val[i].df) = 0

\* C8: combining the growth sheets with the schools of SCHOOL_INFO (which are
\* the schools of the environment summaries) is an inner join: a sheet of a
\* school on one side only is dropped without an error, and the summary
\* holds exactly the schools on both sides.
C8_InnerJoin ==
    /\ exception # "KeyError"
    /\ summary.tag = "value" =>
        RowSchools(summary.val) = Keys(env_data) \cap Keys(growth_data)

PageReached ==
    \/ pc \in {"tab1", "tab2", "tab3", "done", "crashed"}
    \/ overview.tag = "value"
    \/ avg_rows.tag = "value"
    \/ summary.tag = "value"
    \/ ts_df.tag = "value"

\* C10: the page body (and with it every summary) is reached only when both
\* loaders returned data, load_environment_data with a table for every
\* school; a run in which a load failed stops at the gate; the selected
\* school's table is looked up only with a key of env_data.
C10_NoAggregateAfterFailedLoad ==
    /\ PageReached =>
        /\ errors = <<>>
        /\ IsDict(env_data)
        /\ IsDict(growth_data)
        /\ Keys(env_data) = Schools
    /\ ts_df.tag = "value" => selected_school \in Keys(env_data)
    /\ (pc = "tab3" /\ selected_school # "all") => ts_df.tag = "value"

\* a run stopped at the gate because one of the two loads had failed
C10_Witness ==
    /\ pc = "stopped"
    /\ IsNone(env_data)
    /\ IsDict(growth_data)
    /\ overview = Unset /\ avg_rows = Unset /\ summary = Unset

(***************************************************************************)
(* Properties of the summary rows                                          *)
(***************************************************************************)
\* C6: the summary of a school with exactly one record holds that record's
\* values in every averaged field.
C6_SingletonSummaryIsTheRecord ==
    (spc = "done" /\ Len(sdf) = 1) =>
        /\ skind = "env" =>
            /\ srow.val.temperature = sdf[1].temperature
            /\ srow.val.humidity = sdf[1].humidity
            /\ srow.val.ph = sdf[1].ph
            /\ srow.val.ec = sdf[1].ec
        /\ skind = "growth" =>
            /\ srow.val.weight = sdf[1].weight
            /\ srow.val.leaf = sdf[1].leaf
            /\ srow.val.shoot = sdf[1].shoot

\* a one-record table with a non-zero temperature was summarized
C6_Witness ==
    /\ spc = "done"
    /\ skind = "env"
    /\ Len(sdf) = 1
    /\ sdf[1].temperature = Num(MaxVal)
    /\ srow.val.temperature = Num(MaxVal)

=============================================================================
